---- MODULE Spec2Model ----
(***************************************************************************)
(* Offline-first synchronisation of exception logs (AppComponent           *)
(* .checkSyncLog over StorageFacade / ApiFacade) and the CronService job   *)
(* scheduler that drives it.                                               *)
(*                                                                         *)
(* Spec     : the synchronisation tick, the record store and the gateway.  *)
(* CronSpec : the scheduler (jobs, timers, invocations in flight).         *)
(* ServiceSpec, IntrospectSpec, LifecycleSpec, HelperSpec : the scheduler  *)
(* seen by two registrants, through its getters, over the life of one job  *)
(* and through its seconds / minutes / hours helpers.                      *)
(* DrainSpec : the synchronisation driven for ever by its job (liveness). *)
(* StoreSpec, DatabaseSpec : updates of stored logs; RxDbService's         *)
(* init / destroy.                                                         *)
(***************************************************************************)
EXTENDS Integers, Sequences, FiniteSets, TLC

VARIABLES
    \* ---- synchronisation (Spec) ----
    online,     \* navigator.onLine
    now,        \* Date.now(), in clock units
    logs,       \* the exception_logs collection: id -> stored document
    reqs,       \* submissions of checkSyncLog whose pipe has not finished
    ticks,      \* number of checkSyncLog invocations started
    submits,    \* number of createExceptionLog calls made
    succeeded,  \* history: ids whose createExceptionLog emitted a response
    failed,     \* history: ids whose createExceptionLog was rejected
    gone,       \* history: ids removed by the tap's deleteExceptionLog
    logs0,      \* history: the store at start
    reads,      \* checkSyncLog invocations awaiting getUnsyncedExceptionLogs
    readErrors, \* history: invocations whose read of the store rejected
    txs,        \* the txns collection (access records): id -> stored document
    rxDbService, \* RxDbService: rxdb, initPromise, and its calls in flight
    \* ---- scheduler (CronSpec) ----
    clock,      \* Date.now() of the scheduler, in clock units
    jobs,       \* CronService.jobs: name -> CronJobWrapper
    closures,   \* one entry per addIntervalJob / addDailyJob call: its closure
    timers,     \* armed setInterval / setTimeout timers
    inflight,   \* invocations of an action that have not settled
    started,    \* history: per closure, how often its action was started
    calls,      \* number of startJob / stopJob / removeJob calls
    disturbed,  \* history: a call, a failure or an overlap has happened
    failures,   \* history: invocations whose action threw or rejected
    stopped,    \* history: names stopJob returned for, not started since
    observed,   \* what the last introspection call returned to its caller
    lastCall    \* history: the last lifecycle call and what it found

syncVars == <<online, now, logs, reqs, ticks, submits, succeeded, failed,
              gone, logs0, reads, readErrors, txs, rxDbService>>

cronVars == <<clock, jobs, closures, timers, inflight, started, calls, disturbed,
              failures, stopped, observed, lastCall>>

vars == <<syncVars, cronVars>>

\* ------------------------------------------------------------------ bounds
NumLogs == 2        \* documents the store may hold initially
MaxTicks == 2       \* checkSyncLog invocations
MaxNow == 1         \* last clock value
MaxSubmits == 3     \* submissions to the gateway over a run
MaxClock == 5       \* last clock value of the scheduler
MaxGens == 2        \* addIntervalJob / addDailyJob calls
MaxCalls == 1       \* startJob / stopJob / removeJob calls
MaxInflight == 2    \* invocations in flight at once
MaxRunsArg == 1     \* largest maxRuns option passed
Period == 2         \* the interval passed to addIntervalJob, in clock units
DayLen == 2         \* 24 hours, in clock units
DailyAt == 1        \* hour:minute of a daily job, in clock units after midnight
MaxServiceCalls == 2 \* calls of the service's operations in ServiceSpec
MaxServiceClock == 2 \* last clock value in ServiceSpec
MaxUnits == 2        \* largest number of seconds, minutes or hours passed
MaxHelperRuns == 2   \* runs of a helper-registered job that are followed
MaxInits == 3        \* init() calls on the database service
MaxCreates == 2      \* createDatabase() calls
MaxDestroys == 2     \* destroy() calls

\* -------------------------------------------------------------- documents
MapToDocument(model) ==
    [id |-> model.id,
     payload |-> [message |-> model.message,
                  service_name |-> model.serviceName,
                  error_type |-> model.errorType,
                  code |-> model.code,
                  timestamp |-> model.timestamp,
                  parking_door_number |-> model.parkingDoorNumber,
                  is_sync |-> model.isSynced]]

MapToModel(doc) ==
    [id |-> doc.id,
     message |-> doc.payload.message,
     serviceName |-> doc.payload.service_name,
     errorType |-> doc.payload.error_type,
     code |-> doc.payload.code,
     timestamp |-> doc.payload.timestamp,
     parkingDoorNumber |-> doc.payload.parking_door_number,
     isSynced |-> doc.payload.is_sync]

\* An application-written log; the second one carries no door number.
AppLog(i, synced) ==
    [id |-> <<"log", "", i>>,
     message |-> <<"Failed to fetch">>,
     serviceName |-> "CameraService",
     errorType |-> "Error",
     code |-> "CAM_001",
     timestamp |-> 0,
     parkingDoorNumber |-> IF i = 1 THEN "7" ELSE "",
     isSynced |-> synced]

\* ----------------------------------------------------------------- store
InsertLogConflict(s, model) == model.id \in DOMAIN s

InsertLog(s, model) ==
    [i \in DOMAIN s \cup {model.id} |->
        IF i = model.id THEN MapToDocument(model) ELSE s[i]]

DeleteLogKeep(s, id) == s

DeleteLog(s, id) == [i \in DOMAIN s \ {id} |-> s[i]]

FindUnsyncedInverted(s) ==
    {MapToModel(s[i]) : i \in {j \in DOMAIN s : s[j].payload.is_sync = TRUE}}

FindUnsynced(s) ==
    {MapToModel(s[i]) : i \in {j \in DOMAIN s : s[j].payload.is_sync = FALSE}}

\* --------------------------------------------------------- classification
\* An error message is a sequence of fragments; includes() is modelled at the
\* granularity of fragments, after toLowerCase().
ToLowerCase(t) ==
    CASE t = "Failed to fetch" -> "failed to fetch"
      [] t = "HTTP " -> "http "
      [] t = "Internal Server Error" -> "internal server"
      [] t = "Not Found" -> "not found"
      [] t = "Bad Request" -> "bad request"
      [] t = "Unauthorized" -> "unauthorized"
      [] t = "Forbidden" -> "forbidden"
      [] t = "Network" -> "network"
      [] t = "Timeout" -> "timeout"
      [] t = "NetworkOfflineError" -> "networkofflineerror"
      [] t = "TimeoutError" -> "timeouterror"
      [] t = "BadRequestError" -> "badrequesterror"
      [] t = "UnauthorizedError" -> "unauthorizederror"
      [] t = "ForbiddenError" -> "forbiddenerror"
      [] t = "NotFoundError" -> "notfounderror"
      [] t = "ServerError" -> "servererror"
      [] t = "SyncError" -> "syncerror"
      [] OTHER -> t

Includes(msg, needle) == \E i \in 1..Len(msg) : ToLowerCase(msg[i]) = needle

MsgFetch == <<"Failed to fetch">>
Msg400 == <<"HTTP ", "400", ": ", "Bad Request">>
Msg401 == <<"HTTP ", "401", ": ", "Unauthorized">>
Msg403 == <<"HTTP ", "403", ": ", "Forbidden">>
Msg404 == <<"HTTP ", "404", ": ", "Not Found">>
Msg500 == <<"HTTP ", "500", ": ", "Internal Server Error">>
MsgTimeout == <<"Network", " ", "Timeout">>
MsgJson == <<"Unexpected token < in JSON">>
Messages == {MsgFetch, Msg400, Msg401, Msg403, Msg404, Msg500, MsgTimeout, MsgJson}

Msg304 == <<"HTTP ", "304", ": ", "Not Modified">>
Msg503 == <<"HTTP ", "503", ": ", "Service Unavailable">>
Msg504 == <<"HTTP ", "504", ": ", "Gateway ", "Timeout">>

\* The messages the gateway rejects with in Spec.
GatewayErrors == {Msg500}

\* ---------------------------------------------------------------- gateway
\* What comes back for one request: an HTTP response (status, and whether
\* its body parses as JSON) or a transport failure (fetch rejects).
Statuses == {200, 201, 304, 400, 401, 403, 404, 500, 503, 504}

TransportErrors == {MsgFetch, MsgTimeout}

Responses ==
    [kind : {"http"}, status : Statuses, json : BOOLEAN, error : {<<>>}]
        \cup [kind : {"transport"}, status : {0}, json : {FALSE},
              error : TransportErrors]

\* response.ok
ResponseOkLax(status) == status < 500

ResponseOk(status) == status >= 200 /\ status <= 299

\* `HTTP ${response.status}: ${response.statusText}`
HttpError(status) ==
    CASE status = 304 -> Msg304
      [] status = 400 -> Msg400
      [] status = 401 -> Msg401
      [] status = 403 -> Msg403
      [] status = 404 -> Msg404
      [] status = 500 -> Msg500
      [] status = 503 -> Msg503
      [] status = 504 -> Msg504
      [] OTHER -> <<"HTTP ", "other", ": ", "">>

\* FetchHttpClient.request: the observable emits the parsed body, or errors.
RequestOutcome(resp) ==
    IF resp.kind = "transport" THEN [ok |-> FALSE, msg |-> resp.error]
    ELSE IF ~ResponseOk(resp.status)
        THEN [ok |-> FALSE, msg |-> HttpError(resp.status)]
    ELSE IF ~resp.json THEN [ok |-> FALSE, msg |-> MsgJson]
    ELSE [ok |-> TRUE, msg |-> <<>>]

\* The responses of Spec: 200 with a JSON body, or one of GatewayErrors.
SpecResponses ==
    {resp \in Responses :
        \/ RequestOutcome(resp).ok /\ resp.status = 200
        \/ ~RequestOutcome(resp).ok /\ RequestOutcome(resp).msg \in GatewayErrors}

GetErrorTypeByMessage(msg, onLine) ==
    IF Includes(msg, "network") \/ Includes(msg, "failed to fetch")
        THEN "NetworkOfflineError"
    ELSE IF Includes(msg, "timeout") THEN "TimeoutError"
    ELSE IF Includes(msg, "400") \/ Includes(msg, "bad request")
        THEN "BadRequestError"
    ELSE IF Includes(msg, "401") \/ Includes(msg, "unauthorized")
        THEN "UnauthorizedError"
    ELSE IF Includes(msg, "403") \/ Includes(msg, "forbidden")
        THEN "ForbiddenError"
    ELSE IF Includes(msg, "404") \/ Includes(msg, "not found")
        THEN "NotFoundError"
    ELSE IF Includes(msg, "500") \/ Includes(msg, "internal server")
        THEN "ServerError"
    ELSE "SyncError"

GetErrorType(msg, onLine) ==
    IF ~onLine \/ Includes(msg, "network") \/ Includes(msg, "failed to fetch")
        THEN "NetworkOfflineError"
    ELSE IF Includes(msg, "timeout") THEN "TimeoutError"
    ELSE IF Includes(msg, "400") \/ Includes(msg, "bad request")
        THEN "BadRequestError"
    ELSE IF Includes(msg, "401") \/ Includes(msg, "unauthorized")
        THEN "UnauthorizedError"
    ELSE IF Includes(msg, "403") \/ Includes(msg, "forbidden")
        THEN "ForbiddenError"
    ELSE IF Includes(msg, "404") \/ Includes(msg, "not found")
        THEN "NotFoundError"
    ELSE IF Includes(msg, "500") \/ Includes(msg, "internal server")
        THEN "ServerError"
    ELSE "SyncError"

GetErrorCodeUnknown(errorType) == "SYNC_UNK_999"

GetErrorCode(errorType) ==
    CASE errorType = "NetworkOfflineError" -> "SYNC_NET_001"
      [] errorType = "TimeoutError" -> "SYNC_TMO_001"
      [] errorType = "BadRequestError" -> "SYNC_REQ_400"
      [] errorType = "UnauthorizedError" -> "SYNC_AUT_401"
      [] errorType = "ForbiddenError" -> "SYNC_FOR_403"
      [] errorType = "NotFoundError" -> "SYNC_NTF_404"
      [] errorType = "ServerError" -> "SYNC_SRV_500"
      [] errorType = "SyncError" -> "SYNC_ERR_001"
      [] OTHER -> "SYNC_UNK_999"

\* The Thai texts of getErrorMessage are named by their key; the SyncError
\* text embeds the message of the error.
GetErrorMessage(msg, errorType) ==
    IF GetErrorCode(errorType) \in {"SYNC_UNK_999", "SYNC_ERR_001"}
        THEN <<"text:SyncError", msg>>
        ELSE <<"text:" \o errorType>>

HasSimilarError(s, errorType, code, serviceName) ==
    \E l \in FindUnsynced(s) :
        /\ l.errorType = errorType
        /\ l.code = code
        /\ l.serviceName = serviceName

\* The failed log handed on under a new id.
SyncErrorLogCopy(log, msg, errorType, t) ==
    [log EXCEPT !.id = <<"sync-error", ToLowerCase(errorType), t>>,
                !.isSynced = FALSE]

\* The literal passed to createExceptionLog in the catchError handler.
SyncErrorLog(log, msg, errorType, t) ==
    [id |-> <<"sync-error", ToLowerCase(errorType), t>>,
     message |-> GetErrorMessage(msg, errorType),
     timestamp |-> t,
     isSynced |-> FALSE,
     serviceName |-> "AppComponent",
     errorType |-> errorType,
     code |-> GetErrorCode(errorType),
     parkingDoorNumber |->
        IF log.parkingDoorNumber = "" THEN "N/A" ELSE log.parkingDoorNumber]

\* Route of one submission through the pipe: tap runs on a response,
\* catchError on an error.
PipeAlwaysDelete(ok) == "deleting"

PipeAlwaysCatch(ok) == "checking"

PipeRoute(ok) == IF ok THEN "deleting" ELSE "checking"

\* The database service after construction: no database (0), no
\* initPromise (0), no createDatabase promise, no destroy in flight.
NoDatabase ==
    [rxdb |-> 0, initPromise |-> 0, promises |-> <<>>, destroys |-> {},
     inits |-> 0, destroyCalls |-> 0,
     lastInit |-> [returned |-> 0, created |-> FALSE]]

\* ------------------------------------------------------------------ Init
\* The txns collection holds the access records (Transaction documents).
InitialTxs ==
    [id \in {<<"txn", 1>>} |->
        [id |-> id, userName |-> "user", status |-> "PENDING",
         licensePlateNumber |-> "plate", synced |-> FALSE]]

\* The store holds the application's logs, each synced or not.
InitialStores == [1..NumLogs -> BOOLEAN]

StoreOf(choice) ==
    LET idOf == [i \in 1..NumLogs |-> AppLog(i, FALSE).id]
    IN  [id \in {idOf[i] : i \in 1..NumLogs} |->
            LET i == CHOOSE j \in 1..NumLogs : idOf[j] = id
            IN  MapToDocument(AppLog(i, choice[i]))]

SyncInit ==
    /\ online = TRUE
    /\ now = 0
    /\ \E choice \in InitialStores : logs = StoreOf(choice)
    /\ reqs = {}
    /\ ticks = 0
    /\ submits = 0
    /\ succeeded = {}
    /\ failed = {}
    /\ gone = {}
    /\ logs0 = logs
    /\ reads = {}
    /\ readErrors = {}
    /\ txs = InitialTxs
    /\ rxDbService = NoDatabase

\* The database the repositories work on: its two collections.
Database == [exception_logs |-> logs, txns |-> txs]

\* StorageFacade.deleteExceptionLog(id): exceptionLogRepo.delete(id), which
\* removes the document of that id from exception_logs when there is one.
DeleteExceptionLogAndTxns(db, id) ==
    [db EXCEPT !.exception_logs = IF id \in DOMAIN @ THEN DeleteLog(@, id)
                                                     ELSE @,
               !.txns = <<>>]

DeleteExceptionLogNone(db, id) == db

DeleteExceptionLog(db, id) ==
    [db EXCEPT !.exception_logs = IF id \in DOMAIN @ THEN DeleteLog(@, id)
                                                     ELSE @]

\* StorageFacade.createExceptionLog(log): exceptionLogRepo.insert(log).
CreateExceptionLog(db, doc) ==
    [db EXCEPT !.exception_logs = IF InsertLogConflict(@, doc) THEN @
                                  ELSE InsertLog(@, doc)]

\* --------------------------------------------------------------- actions
\* window 'online' / 'offline' events.
SetOnline ==
    /\ online' = ~online
    /\ UNCHANGED <<now, logs, reqs, ticks, submits, succeeded, failed, gone, logs0>>
    /\ UNCHANGED <<reads, readErrors, txs, rxDbService>>
    /\ UNCHANGED cronVars

\* The clock advances.
AdvanceNow ==
    /\ now < MaxNow
    /\ now' = now + 1
    /\ UNCHANGED <<online, logs, reqs, ticks, submits, succeeded, failed, gone,
                   logs0>>
    /\ UNCHANGED <<reads, readErrors, txs, rxDbService>>
    /\ UNCHANGED cronVars

\* The for loop of checkSyncLog: one createExceptionLog call per log read,
\* none awaited.
SubmissionsFirstOnly(logUnSynced, t, sentAt) ==
    IF logUnSynced = {} THEN {}
    ELSE {[tick |-> t, log |-> CHOOSE l \in logUnSynced : TRUE, sent |-> sentAt,
           phase |-> "sent", msg |-> <<>>, errorType |-> "", status |-> 0]}

Submissions(logUnSynced, t, sentAt) ==
    {[tick |-> t, log |-> l, sent |-> sentAt, phase |-> "sent",
      msg |-> <<>>, errorType |-> "", status |-> 0] : l \in logUnSynced}

\* One firing of the 'checkSyncLog' job: read the unsynced logs and, in the
\* for loop, subscribe to one createExceptionLog per log.
CheckSyncLog ==
    /\ ticks < MaxTicks
    /\ submits + Cardinality(FindUnsynced(logs)) <= MaxSubmits
    /\ LET t == ticks + 1
           logUnSynced == FindUnsynced(logs)
       IN  /\ ticks' = t
           /\ reqs' = reqs \cup Submissions(logUnSynced, t, now)
           /\ submits' = submits + Cardinality(Submissions(logUnSynced, t, now))
    /\ UNCHANGED <<online, now, logs, succeeded, failed, gone, logs0>>
    /\ UNCHANGED <<reads, readErrors, txs, rxDbService>>
    /\ UNCHANGED cronVars

\* The gateway answers 2xx with a JSON body: tap issues deleteExceptionLog.
\* A round trip takes at least one clock unit.
GatewayOk(r, resp) ==
    /\ r.phase = "sent"
    /\ now > r.sent
    /\ RequestOutcome(resp).ok
    /\ reqs' = (reqs \ {r}) \cup
            {[r EXCEPT !.phase = PipeRoute(TRUE), !.status = resp.status]}
    /\ succeeded' = succeeded \cup {r.log.id}
    /\ UNCHANGED <<online, now, logs, ticks, submits, failed, gone, logs0>>
    /\ UNCHANGED <<reads, readErrors, txs, rxDbService>>
    /\ UNCHANGED cronVars

\* The gateway rejects (non-2xx, transport failure, unreadable body):
\* catchError classifies the error, then awaits hasSimilarError.
GatewayFail(r, resp) ==
    /\ r.phase = "sent"
    /\ ~RequestOutcome(resp).ok
    /\ reqs' = (reqs \ {r}) \cup
            {[r EXCEPT !.phase = PipeRoute(FALSE),
                       !.status = resp.status,
                       !.msg = RequestOutcome(resp).msg,
                       !.errorType = GetErrorType(RequestOutcome(resp).msg,
                                                  online)]}
    /\ failed' = failed \cup {r.log.id}
    /\ UNCHANGED <<online, now, logs, ticks, submits, succeeded, gone, logs0>>
    /\ UNCHANGED <<reads, readErrors, txs, rxDbService>>
    /\ UNCHANGED cronVars

\* deleteExceptionLog(log.id) takes effect in the store.
DeleteApply(r) ==
    /\ r.phase = "deleting"
    /\ logs' = DeleteExceptionLog(Database, r.log.id).exception_logs
    /\ txs' = DeleteExceptionLog(Database, r.log.id).txns
    /\ gone' = IF r.log.id \in DOMAIN logs THEN gone \cup {r.log.id} ELSE gone
    /\ reqs' = reqs \ {r}
    /\ UNCHANGED <<online, now, ticks, submits, succeeded, failed, logs0>>
    /\ UNCHANGED <<reads, readErrors, rxDbService>>
    /\ UNCHANGED cronVars

\* hasSimilarError reads the store; a similar log ends the handler.
SimilarRead(r) ==
    /\ r.phase = "checking"
    /\ reqs' = IF HasSimilarError(logs, r.errorType, GetErrorCode(r.errorType),
                                  "AppComponent")
                 THEN reqs \ {r}
                 ELSE (reqs \ {r}) \cup {[r EXCEPT !.phase = "inserting"]}
    /\ UNCHANGED <<online, now, logs, ticks, submits, succeeded, failed, gone,
                   logs0>>
    /\ UNCHANGED <<reads, readErrors, txs, rxDbService>>
    /\ UNCHANGED cronVars

\* createExceptionLog of the new error log; a duplicate id is a store error
\* and leaves the store as it was.
InsertApply(r) ==
    /\ r.phase = "inserting"
    /\ LET doc == SyncErrorLog(r.log, r.msg, r.errorType, now)
       IN  /\ logs' = CreateExceptionLog(Database, doc).exception_logs
           /\ txs' = CreateExceptionLog(Database, doc).txns
    /\ reqs' = reqs \ {r}
    /\ UNCHANGED <<online, now, ticks, submits, succeeded, failed, gone, logs0>>
    /\ UNCHANGED <<reads, readErrors, rxDbService>>
    /\ UNCHANGED cronVars

\* ============================================================ scheduler
\* No introspection call has returned yet.
NoObservation == [call |-> "none"]

\* History of a lifecycle call: the operation, the name it was given, whether
\* the table held that name and whether that job was running at the call.
NoCall == [op |-> "none", name |-> "", known |-> FALSE, running |-> FALSE]

CallOf(op, name) ==
    [op |-> op, name |-> name, known |-> name \in DOMAIN jobs,
     running |-> name \in DOMAIN jobs /\ jobs[name].isRunning]

JobNames == {"job"}

\* CronJobOptions; maxRuns 0 stands for an absent maxRuns as well (both are
\* falsy in `maxRuns && ...`).
OptionChoices ==
    [autoStart : BOOLEAN, runOnInit : BOOLEAN, maxRuns : 0..MaxRunsArg,
     onError : BOOLEAN]

\* addDailyJob never reads runOnInit.
DailyOptionChoices == {o \in OptionChoices : ~o.runOnInit}

\* `maxRuns && runCount >= maxRuns`
MaxRunsReached(options, runCount) ==
    /\ options.maxRuns # 0
    /\ runCount >= options.maxRuns

\* getNextRun of addDailyJob: today's hour:minute, tomorrow's when that is
\* not later than now.
GetNextRunSameDay(t, at) ==
    LET scheduled == (t - (t % DayLen)) + at
    IN  IF scheduled < t THEN scheduled + DayLen ELSE scheduled

GetNextRun(t, at) ==
    LET scheduled == (t - (t % DayLen)) + at
    IN  IF scheduled <= t THEN scheduled + DayLen ELSE scheduled

\* A timer handle that names no armed timer and that no wrapper still holds.
NextTimerId(js, tm) ==
    LET used == {t.id : t \in tm} \cup UNION {js[n].intervalId : n \in DOMAIN js}
    IN  CHOOSE i \in 1..(Cardinality(used) + 1) : i \notin used

\* stopJob(name) on the job table and on the armed timers.
StopJobJobs(js, name) ==
    IF name \in DOMAIN js /\ js[name].isRunning
        THEN [js EXCEPT ![name].intervalId = {},
                        ![name].isRunning = FALSE,
                        ![name].nextRun = {}]
        ELSE js

StopJobTimers(js, tm, name) ==
    IF name \in DOMAIN js /\ js[name].isRunning
        THEN {t \in tm : t.id \notin js[name].intervalId}
        ELSE tm

\* removeJob(name): stopJob, then jobs.delete.
RemoveJobJobs(js, name) ==
    [n \in DOMAIN js \ {name} |-> StopJobJobs(js, name)[n]]

StartJobJobsUpsert(js, tm, name, t) ==
    IF name \in DOMAIN js
        THEN IF js[name].isRunning THEN js
             ELSE [js EXCEPT ![name].intervalId = {NextTimerId(js, tm)},
                             ![name].isRunning = TRUE,
                             ![name].nextRun = {t + js[name].interval}]
        ELSE [n \in DOMAIN js \cup {name} |->
                IF n = name
                  THEN [gen |-> 0, kind |-> "interval", intervalId |-> {},
                        interval |-> 0, runCount |-> 0, lastRun |-> {},
                        nextRun |-> {t}, isRunning |-> TRUE,
                        options |-> [autoStart |-> TRUE, runOnInit |-> FALSE,
                                     maxRuns |-> 0, onError |-> FALSE]]
                  ELSE js[n]]

\* startJob(name): setInterval(wrapper.onTick, wrapper.interval).
StartJobJobs(js, tm, name, t) ==
    IF name \in DOMAIN js /\ ~js[name].isRunning
        THEN [js EXCEPT ![name].intervalId = {NextTimerId(js, tm)},
                        ![name].isRunning = TRUE,
                        ![name].nextRun = {t + js[name].interval}]
        ELSE js

StartJobTimersAlways(js, tm, name, t) ==
    IF name \in DOMAIN js
        THEN tm \cup {[id |-> NextTimerId(js, tm), gen |-> js[name].gen,
                       fn |-> "onTick", periodic |-> TRUE,
                       due |-> t + js[name].interval,
                       period |-> js[name].interval]}
        ELSE tm

StartJobTimers(js, tm, name, t) ==
    IF name \in DOMAIN js /\ ~js[name].isRunning
        THEN tm \cup {[id |-> NextTimerId(js, tm), gen |-> js[name].gen,
                       fn |-> "onTick", periodic |-> TRUE,
                       due |-> t + js[name].interval,
                       period |-> js[name].interval]}
        ELSE tm

\* scheduleNext of the daily closure g (registered as name, for time-of-day
\* at): arms a single-shot timer on whatever job the table holds under name.
ScheduleNextJobs(js, tm, name, at, t) ==
    IF name \in DOMAIN js
        THEN [js EXCEPT ![name].nextRun = {GetNextRun(t, at)},
                        ![name].intervalId = {NextTimerId(js, tm)},
                        ![name].isRunning = TRUE]
        ELSE js

ScheduleNextTimers(js, tm, g, name, at, t) ==
    IF name \in DOMAIN js
        THEN tm \cup {[id |-> NextTimerId(js, tm), gen |-> g, fn |-> "fire",
                       periodic |-> FALSE,
                       due |-> GetNextRun(t, at), period |-> 0]}
        ELSE tm

\* History: the registration that held the name when a new one was added
\* (0 when the name was free).
PriorGen(js, name) == IF name \in DOMAIN js THEN js[name].gen ELSE 0

\* The times of day a daily job can be registered for.
DailyTimes == 0..(DayLen - 1)

CronInit ==
    /\ clock = 0
    /\ jobs = <<>>
    /\ closures = <<>>
    /\ timers = {}
    /\ inflight = {}
    /\ started = <<>>
    /\ calls = 0
    /\ disturbed = FALSE
    /\ failures = {}
    /\ stopped = {}
    /\ observed = NoObservation
    /\ lastCall = NoCall

\* addIntervalJob(name, interval, onTick, options)
AddIntervalJob(name, interval, options) ==
    /\ Len(closures) < MaxGens
    /\ options.runOnInit => Cardinality(inflight) < MaxInflight
    /\ LET g == Len(closures) + 1
           js1 == IF name \in DOMAIN jobs THEN RemoveJobJobs(jobs, name) ELSE jobs
           tm1 == IF name \in DOMAIN jobs THEN StopJobTimers(jobs, timers, name)
                                          ELSE timers
           wrapper == [gen |-> g, kind |-> "interval", intervalId |-> {},
                       interval |-> interval, runCount |-> 0, lastRun |-> {},
                       nextRun |-> {}, isRunning |-> FALSE, options |-> options]
           js2 == [n \in DOMAIN js1 \cup {name} |->
                      IF n = name THEN wrapper ELSE js1[n]]
       IN  /\ closures' = Append(closures,
                  [name |-> name, kind |-> "interval", interval |-> interval,
                   at |-> 0, options |-> options, runCount |-> 0,
                   registeredAt |-> clock, prior |-> PriorGen(jobs, name)])
           /\ IF options.runOnInit
                THEN /\ inflight' = inflight \cup
                            {[gen |-> g, n |-> 1, daily |-> FALSE]}
                     /\ started' = Append(started, 1)
                ELSE /\ inflight' = inflight
                     /\ started' = Append(started, 0)
           /\ IF options.autoStart
                THEN /\ jobs' = StartJobJobs(js2, tm1, name, clock)
                     /\ timers' = StartJobTimers(js2, tm1, name, clock)
                ELSE /\ jobs' = js2
                     /\ timers' = tm1
    /\ disturbed' = (disturbed \/ Len(closures) > 0)
    /\ stopped' = stopped \ {name}
    /\ UNCHANGED <<clock, calls, failures>>
    /\ UNCHANGED <<observed, lastCall>>
    /\ UNCHANGED syncVars

\* addDailyJob(name, hour, minute, onTick, options): the wrapper replaces
\* whatever the table holds under the name.
AddDailyJob(name, at, options) ==
    /\ Len(closures) < MaxGens
    /\ LET g == Len(closures) + 1
           wrapper == [gen |-> g, kind |-> "daily", intervalId |-> {},
                       interval |-> DayLen, runCount |-> 0, lastRun |-> {},
                       nextRun |-> {GetNextRun(clock, at)}, isRunning |-> FALSE,
                       options |-> options]
           js2 == [n \in DOMAIN jobs \cup {name} |->
                      IF n = name THEN wrapper ELSE jobs[n]]
       IN  /\ closures' = Append(closures,
                  [name |-> name, kind |-> "daily", interval |-> DayLen,
                   at |-> at, options |-> options, runCount |-> 0,
                   registeredAt |-> clock, prior |-> PriorGen(jobs, name)])
           /\ started' = Append(started, 0)
           /\ IF options.autoStart
                THEN /\ jobs' = ScheduleNextJobs(js2, timers, name, at, clock)
                     /\ timers' = ScheduleNextTimers(js2, timers, g, name, at, clock)
                ELSE /\ jobs' = js2
                     /\ timers' = timers
    /\ disturbed' = (disturbed \/ Len(closures) > 0)
    /\ stopped' = stopped \ {name}
    /\ UNCHANGED <<clock, inflight, calls, failures>>
    /\ UNCHANGED <<observed, lastCall>>
    /\ UNCHANGED syncVars

\* startJob(name); an unknown name is reported and nothing else happens.
StartJob(name) ==
    /\ calls' = calls + 1
    /\ lastCall' = CallOf("startJob", name)
    /\ jobs' = StartJobJobs(jobs, timers, name, clock)
    /\ timers' = StartJobTimers(jobs, timers, name, clock)
    /\ disturbed' = TRUE
    /\ stopped' = stopped \ {name}
    /\ UNCHANGED <<clock, closures, inflight, started, failures>>
    /\ UNCHANGED observed
    /\ UNCHANGED syncVars

\* stopJob(name); an unknown name is reported and nothing else happens.
StopJob(name) ==
    /\ calls' = calls + 1
    /\ lastCall' = CallOf("stopJob", name)
    /\ jobs' = StopJobJobs(jobs, name)
    /\ timers' = StopJobTimers(jobs, timers, name)
    /\ disturbed' = TRUE
    /\ stopped' = stopped \cup {name}
    /\ UNCHANGED <<clock, closures, inflight, started, failures>>
    /\ UNCHANGED observed
    /\ UNCHANGED syncVars

\* removeJob(name); an unknown name is reported and nothing else happens.
RemoveJob(name) ==
    /\ calls' = calls + 1
    /\ lastCall' = CallOf("removeJob", name)
    /\ jobs' = RemoveJobJobs(jobs, name)
    /\ timers' = StopJobTimers(jobs, timers, name)
    /\ disturbed' = TRUE
    /\ stopped' = stopped \ {name}
    /\ UNCHANGED <<clock, closures, inflight, started, failures>>
    /\ UNCHANGED observed
    /\ UNCHANGED syncVars

Rearmed(tm, t) ==
    IF t.periodic THEN (tm \ {t}) \cup {[t EXCEPT !.due = t.due + t.period]}
                  ELSE tm \ {t}

\* A setInterval timer calls wrappedOnTick of an interval job.
IntervalTick(t) ==
    /\ t.fn = "onTick"
    /\ closures[t.gen].kind = "interval"
    /\ t.due <= clock
    /\ LET g == t.gen
           c == closures[g]
           tm0 == Rearmed(timers, t)
       IN  IF MaxRunsReached(c.options, c.runCount)
             THEN /\ jobs' = StopJobJobs(jobs, c.name)
                  /\ timers' = StopJobTimers(jobs, tm0, c.name)
                  /\ UNCHANGED <<inflight, started, disturbed>>
             ELSE /\ Cardinality(inflight) < MaxInflight
                  /\ inflight' = inflight \cup
                        {[gen |-> g, n |-> started[g] + 1, daily |-> FALSE]}
                  /\ started' = [started EXCEPT ![g] = @ + 1]
                  /\ disturbed' = (disturbed \/ \E v \in inflight : v.gen = g)
                  /\ timers' = tm0
                  /\ UNCHANGED jobs
    /\ UNCHANGED <<clock, closures, calls, failures, stopped>>
    /\ UNCHANGED <<observed, lastCall>>
    /\ UNCHANGED syncVars

\* A setInterval timer armed by startJob on a daily job calls scheduleNext.
DailyIntervalTick(t) ==
    /\ t.fn = "onTick"
    /\ closures[t.gen].kind = "daily"
    /\ t.due <= clock
    /\ LET c == closures[t.gen]
           tm0 == Rearmed(timers, t)
       IN  /\ jobs' = ScheduleNextJobs(jobs, tm0, c.name, c.at, clock)
           /\ timers' = ScheduleNextTimers(jobs, tm0, t.gen, c.name, c.at, clock)
    /\ UNCHANGED <<clock, closures, inflight, started, calls, disturbed,
                   failures, stopped>>
    /\ UNCHANGED <<observed, lastCall>>
    /\ UNCHANGED syncVars

\* The setTimeout of scheduleNext fires: the daily action starts.
DailyFire(t) ==
    /\ t.fn = "fire"
    /\ t.due <= clock
    /\ Cardinality(inflight) < MaxInflight
    /\ timers' = Rearmed(timers, t)
    /\ inflight' = inflight \cup
            {[gen |-> t.gen, n |-> started[t.gen] + 1, daily |-> TRUE]}
    /\ started' = [started EXCEPT ![t.gen] = @ + 1]
    /\ disturbed' = (disturbed \/ \E v \in inflight : v.gen = t.gen)
    /\ UNCHANGED <<clock, jobs, closures, calls, failures, stopped>>
    /\ UNCHANGED <<observed, lastCall>>
    /\ UNCHANGED syncVars

\* `await onTick()` of wrappedOnTick settles; the catch block hands the error
\* to options.onError when there is one.
IntervalSettle(v, ok) ==
    /\ v \in inflight
    /\ ~v.daily
    /\ inflight' = inflight \ {v}
    /\ LET c == closures[v.gen] IN
       IF ok
         THEN /\ closures' = [closures EXCEPT ![v.gen].runCount = @ + 1]
              /\ jobs' = IF c.name \in DOMAIN jobs
                           THEN [jobs EXCEPT
                                   ![c.name].runCount = c.runCount + 1,
                                   ![c.name].lastRun = {clock},
                                   ![c.name].nextRun = {clock + c.interval}]
                           ELSE jobs
              /\ UNCHANGED <<disturbed, failures>>
         ELSE /\ disturbed' = TRUE
              /\ failures' = failures \cup
                    {[gen |-> v.gen, n |-> v.n, reported |-> c.options.onError]}
              /\ UNCHANGED <<closures, jobs>>
    /\ UNCHANGED <<clock, timers, started, calls, stopped>>
    /\ UNCHANGED <<observed, lastCall>>
    /\ UNCHANGED syncVars

\* `await onTick()` of the daily timer callback settles; a rejection ends
\* the callback there (no catch, no onError, no scheduleNext). The daily
\* closure has no counter of its own: its runCount here is history, the
\* number of its invocations that resolved.
DailySettle(v, ok) ==
    /\ v \in inflight
    /\ v.daily
    /\ inflight' = inflight \ {v}
    /\ LET c == closures[v.gen]
           js1 == IF c.name \in DOMAIN jobs
                    THEN [jobs EXCEPT ![c.name].runCount = @ + 1,
                                      ![c.name].lastRun = {clock}]
                    ELSE jobs
       IN  IF ok
             THEN /\ jobs' = ScheduleNextJobs(js1, timers, c.name, c.at, clock)
                  /\ timers' = ScheduleNextTimers(js1, timers, v.gen, c.name,
                                                  c.at, clock)
                  /\ closures' = [closures EXCEPT ![v.gen].runCount = @ + 1]
                  /\ UNCHANGED <<disturbed, failures>>
             ELSE /\ disturbed' = TRUE
                  /\ failures' = failures \cup
                        {[gen |-> v.gen, n |-> v.n, reported |-> FALSE]}
                  /\ UNCHANGED <<jobs, timers, closures>>
    /\ UNCHANGED <<clock, started, calls, stopped>>
    /\ UNCHANGED <<observed, lastCall>>
    /\ UNCHANGED syncVars

\* Time passes once every due timer has fired.
AdvanceClock ==
    /\ clock < MaxClock
    /\ \A t \in timers : t.due > clock
    /\ clock' = clock + 1
    /\ UNCHANGED <<jobs, closures, timers, inflight, started, calls, disturbed,
                   failures, stopped>>
    /\ UNCHANGED <<observed, lastCall>>
    /\ UNCHANGED syncVars

CronNext ==
    \/ \E name \in JobNames : \E options \in OptionChoices :
            AddIntervalJob(name, Period, options)
    \/ \E name \in JobNames : \E options \in DailyOptionChoices :
            AddDailyJob(name, DailyAt, options)
    \/ \E name \in DOMAIN jobs : calls < MaxCalls /\ StartJob(name)
    \/ \E name \in DOMAIN jobs : calls < MaxCalls /\ StopJob(name)
    \/ \E name \in DOMAIN jobs : calls < MaxCalls /\ RemoveJob(name)
    \/ \E t \in timers : IntervalTick(t)
    \/ \E t \in timers : DailyIntervalTick(t)
    \/ \E t \in timers : DailyFire(t)
    \/ \E v \in inflight : \E ok \in BOOLEAN : IntervalSettle(v, ok)
    \/ \E v \in inflight : \E ok \in BOOLEAN : DailySettle(v, ok)
    \/ AdvanceClock

SyncNext ==
    \/ SetOnline
    \/ AdvanceNow
    \/ CheckSyncLog
    \/ \E r \in reqs : \E resp \in SpecResponses : GatewayOk(r, resp)
    \/ \E r \in reqs : \E resp \in SpecResponses : GatewayFail(r, resp)
    \/ \E r \in reqs : DeleteApply(r)
    \/ \E r \in reqs : SimilarRead(r)
    \/ \E r \in reqs : InsertApply(r)

Init == SyncInit /\ CronInit

Next == SyncNext

Spec == Init /\ [][Next]_vars

\* One synchronisation tick against a gateway that may answer anything.
FirstTick ==
    /\ ticks = 0
    /\ CheckSyncLog

GatewayNext ==
    \/ SetOnline
    \/ AdvanceNow
    \/ FirstTick
    \/ \E r \in reqs : \E resp \in Responses : GatewayOk(r, resp)
    \/ \E r \in reqs : \E resp \in Responses : GatewayFail(r, resp)
    \/ \E r \in reqs : DeleteApply(r)
    \/ \E r \in reqs : SimilarRead(r)
    \/ \E r \in reqs : InsertApply(r)

\* The store starts with its first two logs unsynced, the others synced.
GatewayInit ==
    /\ Init
    /\ logs = StoreOf([i \in 1..NumLogs |-> i > 2])

GatewaySpec == GatewayInit /\ [][GatewayNext]_vars

CronSpecInit ==
    /\ CronInit
    /\ online = TRUE
    /\ now = 0
    /\ logs = <<>>
    /\ reqs = {}
    /\ ticks = 0
    /\ submits = 0
    /\ succeeded = {}
    /\ failed = {}
    /\ gone = {}
    /\ logs0 = <<>>
    /\ reads = {}
    /\ readErrors = {}
    /\ txs = <<>>
    /\ rxDbService = NoDatabase

CronSpec == CronSpecInit /\ [][CronNext]_vars

\* Registration of daily jobs at any time of the clock, for any time of day.
NextRunInit ==
    /\ clock \in 0..MaxClock
    /\ jobs = <<>>
    /\ closures = <<>>
    /\ timers = {}
    /\ inflight = {}
    /\ started = <<>>
    /\ calls = 0
    /\ disturbed = FALSE
    /\ failures = {}
    /\ stopped = {}
    /\ observed = NoObservation
    /\ lastCall = NoCall
    /\ online = TRUE
    /\ now = 0
    /\ logs = <<>>
    /\ reqs = {}
    /\ ticks = 0
    /\ submits = 0
    /\ succeeded = {}
    /\ failed = {}
    /\ gone = {}
    /\ logs0 = <<>>
    /\ reads = {}
    /\ readErrors = {}
    /\ txs = <<>>
    /\ rxDbService = NoDatabase

NextRunNext ==
    \E name \in JobNames : \E at \in DailyTimes :
        \E options \in DailyOptionChoices : AddDailyJob(name, at, options)

NextRunSpec == NextRunInit /\ [][NextRunNext]_vars

\* ------------------------------------------------ the application's job
\* AppComponent.ngOnInit registers checkSyncLog as an interval job, without
\* options; the scheduler then drives the synchronisation.
AppJob == "checkSyncLog"

DefaultOptions ==
    [autoStart |-> TRUE, runOnInit |-> FALSE, maxRuns |-> 0, onError |-> FALSE]

\* The callback ngOnInit registers, `() => { console.log(...);
\* this.checkSyncLog(); }`, has a block body without return: its value is
\* undefined whatever becomes of the promise p of checkSyncLog.
CallbackThrows(p) == "throws"

CallbackResult(p) == "undefined"

NgOnInit ==
    /\ Len(closures) = 0
    /\ AddIntervalJob(AppJob, Period, DefaultOptions)

\* The job's timer fires: wrappedOnTick calls the callback, which starts
\* checkSyncLog (now awaiting the store) and returns; `await onTick()` of an
\* undefined value resolves and the run is counted.
SyncJobTick(t) ==
    /\ t.fn = "onTick"
    /\ t.due <= clock
    /\ ticks < MaxTicks
    /\ LET g == t.gen
           c == closures[g]
       IN  /\ ~MaxRunsReached(c.options, c.runCount)
           /\ timers' = Rearmed(timers, t)
           /\ started' = [started EXCEPT ![g] = @ + 1]
           /\ ticks' = ticks + 1
           /\ reads' = reads \cup {ticks + 1}
           /\ IF CallbackResult("pending") = "undefined"
                THEN /\ closures' = [closures EXCEPT ![g].runCount = @ + 1]
                     /\ jobs' = IF c.name \in DOMAIN jobs
                                  THEN [jobs EXCEPT
                                          ![c.name].runCount = c.runCount + 1,
                                          ![c.name].lastRun = {clock},
                                          ![c.name].nextRun = {clock + c.interval}]
                                  ELSE jobs
                     /\ UNCHANGED failures
                ELSE /\ failures' = failures \cup
                            {[gen |-> g, n |-> started[g] + 1,
                              reported |-> c.options.onError]}
                     /\ UNCHANGED <<closures, jobs>>
    /\ UNCHANGED <<clock, inflight, calls, disturbed, stopped, observed,
                   lastCall>>
    /\ UNCHANGED <<online, now, logs, reqs, submits, succeeded, failed, gone,
                   logs0, readErrors, txs, rxDbService>>

\* getUnsyncedExceptionLogs resolves: the rest of checkSyncLog runs.
ReadOk(k) ==
    /\ k \in reads
    /\ reads' = reads \ {k}
    /\ LET logUnSynced == FindUnsynced(logs)
       IN  /\ submits + Cardinality(logUnSynced) <= MaxSubmits
           /\ reqs' = reqs \cup Submissions(logUnSynced, k, now)
           /\ submits' = submits + Cardinality(Submissions(logUnSynced, k, now))
    /\ UNCHANGED <<online, now, logs, ticks, succeeded, failed, gone, logs0,
                   readErrors, txs, rxDbService>>
    /\ UNCHANGED cronVars

\* getUnsyncedExceptionLogs rejects: the promise of checkSyncLog rejects,
\* and nothing holds that promise.
ReadFail(k) ==
    /\ k \in reads
    /\ reads' = reads \ {k}
    /\ readErrors' = readErrors \cup {k}
    /\ UNCHANGED <<online, now, logs, reqs, ticks, submits, succeeded, failed,
                   gone, logs0, txs, rxDbService>>
    /\ UNCHANGED cronVars

\* Time passes once every due timer has fired; Date.now() follows.
AppAdvance ==
    /\ clock < MaxClock
    /\ \A t \in timers : t.due > clock
    /\ clock' = clock + 1
    /\ now' = now + 1
    /\ UNCHANGED <<jobs, closures, timers, inflight, started, calls, disturbed,
                   failures, stopped, observed, lastCall>>
    /\ UNCHANGED <<online, logs, reqs, ticks, submits, succeeded, failed, gone,
                   logs0, reads, readErrors, txs, rxDbService>>

AppNext ==
    \/ NgOnInit
    \/ \E t \in timers : SyncJobTick(t)
    \/ \E k \in reads : ReadOk(k)
    \/ \E k \in reads : ReadFail(k)
    \/ \E r \in reqs : \E resp \in SpecResponses : GatewayOk(r, resp)
    \/ \E r \in reqs : \E resp \in SpecResponses : GatewayFail(r, resp)
    \/ \E r \in reqs : DeleteApply(r)
    \/ \E r \in reqs : SimilarRead(r)
    \/ \E r \in reqs : InsertApply(r)
    \/ SetOnline
    \/ AppAdvance

AppSpec == Init /\ [][AppNext]_vars

\* ------------------------------------------- the scheduler's interface
\* stopAll(): stopJob for every name of the table, one after the other.
StopEachFirst(js, tm, names) ==
    IF names = {} THEN [jobs |-> js, timers |-> tm]
    ELSE LET n == CHOOSE x \in names : TRUE
         IN  [jobs |-> StopJobJobs(js, n), timers |-> StopJobTimers(js, tm, n)]

RECURSIVE StopEach(_, _, _)
StopEach(js, tm, names) ==
    IF names = {} THEN [jobs |-> js, timers |-> tm]
    ELSE LET n == CHOOSE x \in names : TRUE
         IN  StopEach(StopJobJobs(js, n), StopJobTimers(js, tm, n), names \ {n})

\* removeAll(): removeJob for every name the table held at the call.
RECURSIVE RemoveEach(_, _, _)
RemoveEach(js, tm, names) ==
    IF names = {} THEN [jobs |-> js, timers |-> tm]
    ELSE LET n == CHOOSE x \in names : TRUE
         IN  RemoveEach(RemoveJobJobs(js, n), StopJobTimers(js, tm, n),
                        names \ {n})

StopAll ==
    /\ calls' = calls + 1
    /\ lastCall' = CallOf("stopAll", "")
    /\ jobs' = StopEach(jobs, timers, DOMAIN jobs).jobs
    /\ timers' = StopEach(jobs, timers, DOMAIN jobs).timers
    /\ disturbed' = TRUE
    /\ stopped' = stopped \cup DOMAIN jobs
    /\ UNCHANGED <<clock, closures, inflight, started, failures>>
    /\ UNCHANGED observed
    /\ UNCHANGED syncVars

RemoveAll ==
    /\ calls' = calls + 1
    /\ lastCall' = CallOf("removeAll", "")
    /\ jobs' = RemoveEach(jobs, timers, DOMAIN jobs).jobs
    /\ timers' = RemoveEach(jobs, timers, DOMAIN jobs).timers
    /\ disturbed' = TRUE
    /\ stopped' = stopped \ DOMAIN jobs
    /\ UNCHANGED <<clock, closures, inflight, started, failures>>
    /\ UNCHANGED observed
    /\ UNCHANGED syncVars

\* ngOnDestroy(): stopAll(), then the destroy$ subject completes (nothing
\* subscribes to it).
NgOnDestroy == StopAll

\* getJob(name): the CronJobInfo of the wrapper, or undefined (the empty
\* set here; a defined result is the set of that one record).
GetJob(js, name) ==
    IF name \in DOMAIN js
        THEN {[name |-> name, interval |-> js[name].interval,
               isRunning |-> js[name].isRunning, runCount |-> js[name].runCount,
               lastRun |-> js[name].lastRun, nextRun |-> js[name].nextRun]}
        ELSE {}

\* getAllJobs(): getJob of every key, undefined results filtered out.
GetAllJobs(js) == UNION {GetJob(js, n) : n \in DOMAIN js}

\* getRunningJobsCount()
GetRunningJobsCountAll(js) == Cardinality(DOMAIN js)

GetRunningJobsCount(js) == Cardinality({n \in DOMAIN js : js[n].isRunning})

\* getNextRunTime(name): `wrapper?.nextRun || null`; null is the empty set,
\* as in the wrapper's nextRun.
GetNextRunTime(js, name) == IF name \in DOMAIN js THEN js[name].nextRun ELSE {}

\* A caller reads the scheduler through one of the four getters.
GetJobCall(name) ==
    /\ observed' = [call |-> "getJob", name |-> name,
                    result |-> GetJob(jobs, name)]
    /\ UNCHANGED <<clock, jobs, closures, timers, inflight, started, calls,
                   disturbed, failures, stopped, lastCall>>
    /\ UNCHANGED syncVars

GetAllJobsCall ==
    /\ observed' = [call |-> "getAllJobs", result |-> GetAllJobs(jobs)]
    /\ UNCHANGED <<clock, jobs, closures, timers, inflight, started, calls,
                   disturbed, failures, stopped, lastCall>>
    /\ UNCHANGED syncVars

GetRunningJobsCountCall ==
    /\ observed' = [call |-> "getRunningJobsCount",
                    result |-> GetRunningJobsCount(jobs)]
    /\ UNCHANGED <<clock, jobs, closures, timers, inflight, started, calls,
                   disturbed, failures, stopped, lastCall>>
    /\ UNCHANGED syncVars

GetNextRunTimeCall(name) ==
    /\ observed' = [call |-> "getNextRunTime", name |-> name,
                    result |-> GetNextRunTime(jobs, name)]
    /\ UNCHANGED <<clock, jobs, closures, timers, inflight, started, calls,
                   disturbed, failures, stopped, lastCall>>
    /\ UNCHANGED syncVars

\* Two registrants, one job each, using every operation of the service.
ServiceNames == {"job", "other"}

\* Their options: autoStart set or not, the rest left out.
ServiceOptions ==
    {o \in OptionChoices : o.maxRuns = 0 /\ ~o.onError /\ ~o.runOnInit}

Registered == {closures[g].name : g \in DOMAIN closures}

CallAllowed == calls < MaxServiceCalls

ServiceNext ==
    \/ \E name \in ServiceNames \ Registered : \E options \in ServiceOptions :
            AddIntervalJob(name, Period, options)
    \/ \E name \in ServiceNames \ Registered : \E options \in ServiceOptions :
            AddDailyJob(name, DailyAt, options)
    \/ \E name \in ServiceNames : CallAllowed /\ StartJob(name)
    \/ \E name \in ServiceNames : CallAllowed /\ StopJob(name)
    \/ \E name \in ServiceNames : CallAllowed /\ RemoveJob(name)
    \/ CallAllowed /\ StopAll
    \/ CallAllowed /\ RemoveAll
    \/ CallAllowed /\ NgOnDestroy
    \/ \E t \in timers : IntervalTick(t)
    \/ \E t \in timers : DailyIntervalTick(t)
    \/ \E t \in timers : DailyFire(t)
    \/ \E v \in inflight : IntervalSettle(v, TRUE)
    \/ \E v \in inflight : DailySettle(v, TRUE)
    \/ clock < MaxServiceClock /\ AdvanceClock

ServiceSpec == CronSpecInit /\ [][ServiceNext]_vars

\* The same service, followed up to the first value a getter hands to its
\* caller.
Unobserved == observed = NoObservation

IntrospectNext ==
    \/ Unobserved /\ ServiceNext
    \/ \E name \in ServiceNames : Unobserved /\ GetJobCall(name)
    \/ Unobserved /\ GetAllJobsCall
    \/ Unobserved /\ GetRunningJobsCountCall
    \/ \E name \in ServiceNames : Unobserved /\ GetNextRunTimeCall(name)

IntrospectSpec == CronSpecInit /\ [][IntrospectNext]_vars

\* ------------------------------------------------ one job's whole life
\* One registrant: a single registration, of either kind and with any
\* options, then lifecycle calls while the timers run.
LifecycleNext ==
    \/ \E name \in JobNames : \E options \in OptionChoices :
            Len(closures) = 0 /\ AddIntervalJob(name, Period, options)
    \/ \E name \in JobNames : \E options \in OptionChoices :
            Len(closures) = 0 /\ AddDailyJob(name, DailyAt, options)
    \/ \E name \in JobNames : CallAllowed /\ StartJob(name)
    \/ \E name \in JobNames : CallAllowed /\ StopJob(name)
    \/ \E name \in JobNames : CallAllowed /\ RemoveJob(name)
    \/ \E t \in timers : IntervalTick(t)
    \/ \E t \in timers : DailyIntervalTick(t)
    \/ \E t \in timers : DailyFire(t)
    \/ \E v \in inflight : \E ok \in BOOLEAN : IntervalSettle(v, ok)
    \/ \E v \in inflight : \E ok \in BOOLEAN : DailySettle(v, ok)
    \/ AdvanceClock

LifecycleSpec == CronSpecInit /\ [][LifecycleNext]_vars

\* ------------------------------------------------- the helper methods
\* addSecondsJob / addMinutesJob / addHoursJob: addIntervalJob with the
\* period converted to milliseconds (a clock unit is a millisecond here).
AddSecondsJob(name, seconds, options) ==
    AddIntervalJob(name, seconds * 1000, options)

AddMinutesJobAsSeconds(name, minutes, options) ==
    AddIntervalJob(name, minutes * 1000, options)

AddMinutesJob(name, minutes, options) ==
    AddIntervalJob(name, minutes * 60 * 1000, options)

AddHoursJob(name, hours, options) ==
    AddIntervalJob(name, hours * 60 * 60 * 1000, options)

\* Time passes until the earliest armed timer is due.
AdvanceToTimer ==
    /\ timers # {}
    /\ \A t \in timers : t.due > clock
    /\ \A g \in DOMAIN started : started[g] < MaxHelperRuns
    /\ clock' = CHOOSE d \in {t.due : t \in timers} :
                    \A t \in timers : d <= t.due
    /\ UNCHANGED <<jobs, closures, timers, inflight, started, calls, disturbed,
                   failures, stopped>>
    /\ UNCHANGED <<observed, lastCall>>
    /\ UNCHANGED syncVars

\* One registration through a helper, then the job runs.
HelperNext ==
    \/ \E name \in JobNames : \E seconds \in 1..MaxUnits :
        \E options \in OptionChoices :
            Len(closures) = 0 /\ AddSecondsJob(name, seconds, options)
    \/ \E name \in JobNames : \E minutes \in 1..MaxUnits :
        \E options \in OptionChoices :
            Len(closures) = 0 /\ AddMinutesJob(name, minutes, options)
    \/ \E name \in JobNames : \E hours \in 1..MaxUnits :
        \E options \in OptionChoices :
            Len(closures) = 0 /\ AddHoursJob(name, hours, options)
    \/ \E t \in timers : IntervalTick(t)
    \/ \E v \in inflight : \E ok \in BOOLEAN : IntervalSettle(v, ok)
    \/ AdvanceToTimer

HelperSpec == CronSpecInit /\ [][HelperNext]_vars

\* ------------------------------------------- the job that keeps ticking
\* The 'checkSyncLog' interval job has no maxRuns and its callback never
\* fails, so its timer fires for ever. A firing beyond the ones that are
\* numbered, at a clock value beyond the ones that are told apart:
\* checkSyncLog submits every unsynced log the store holds.
SteadyTick ==
    /\ now = MaxNow
    /\ ticks > 0
    /\ reqs' = reqs \cup Submissions(FindUnsynced(logs), MaxTicks + 1, now)
    /\ UNCHANGED <<online, now, logs, ticks, submits, succeeded, failed, gone,
                   logs0>>
    /\ UNCHANGED <<reads, readErrors, txs, rxDbService>>
    /\ UNCHANGED cronVars

\* The answer to a submission sent at the last clock value that is told
\* apart: it arrives later than that.
LateGatewayOk(r, resp) ==
    /\ r.phase = "sent"
    /\ r.sent = MaxNow
    /\ RequestOutcome(resp).ok
    /\ reqs' = (reqs \ {r}) \cup
            {[r EXCEPT !.phase = PipeRoute(TRUE), !.status = resp.status]}
    /\ succeeded' = succeeded \cup {r.log.id}
    /\ UNCHANGED <<online, now, logs, ticks, submits, failed, gone, logs0>>
    /\ UNCHANGED <<reads, readErrors, txs, rxDbService>>
    /\ UNCHANGED cronVars

\* A submission is answered with a success.
Answered ==
    \/ \E r \in reqs : \E resp \in SpecResponses : GatewayOk(r, resp)
    \/ \E r \in reqs : \E resp \in SpecResponses : LateGatewayOk(r, resp)

DrainNext ==
    \/ AdvanceNow
    \/ FirstTick
    \/ SteadyTick
    \/ Answered
    \/ \E r \in reqs : \E resp \in SpecResponses :
            r.tick = 1 /\ GatewayFail(r, resp)
    \/ \E r \in reqs : DeleteApply(r)
    \/ \E r \in reqs : SimilarRead(r)
    \/ \E r \in reqs : InsertApply(r)

\* The device is on line; the submissions of the first tick may fail, all
\* later ones succeed. The timer of the job keeps firing, time passes, every
\* submission is answered and every call on the store settles.
DrainSpec ==
    /\ GatewayInit
    /\ [][DrainNext]_vars
    /\ WF_vars(FirstTick \/ SteadyTick)
    /\ WF_vars(AdvanceNow)
    /\ WF_vars(Answered)
    /\ WF_vars(\E r \in reqs : DeleteApply(r))
    /\ WF_vars(\E r \in reqs : SimilarRead(r))
    /\ WF_vars(\E r \in reqs : InsertApply(r))

\* ------------------------------------------------ updates of the store
ModelFields ==
    {"id", "message", "serviceName", "errorType", "code", "timestamp",
     "parkingDoorNumber", "isSynced"}

\* The value read from a field that an object does not have, as a value of
\* the field's sort that no log carries.
Undefined(f) ==
    CASE f = "id" -> <<"undefined">>
      [] f = "message" -> <<"undefined">>
      [] f = "timestamp" -> 0 - 1
      [] OTHER -> "undefined"

\* `doc as ExceptionLog`: the cast adds nothing to the partial.
AsExceptionLog(doc) ==
    [f \in ModelFields |-> IF f \in DOMAIN doc THEN doc[f] ELSE Undefined(f)]

\* RxDocument.patch: each top-level key of the patch is assigned.
Patch(data, patch) ==
    [k \in DOMAIN data |-> IF k \in DOMAIN patch THEN patch[k] ELSE data[k]]

\* What the storage does with a write whose primary key is not the stored
\* one is not decided by the repository: the write is rejected, or written.
SaveOutcomes == {"rejected", "written"}

\* RxDbExceptionLogRepository.update(id, doc); an unknown id throws.
Update(s, id, doc, outcome) ==
    IF id \notin DOMAIN s THEN s
    ELSE LET newData == Patch(s[id], MapToDocument(AsExceptionLog(doc)))
         IN  IF newData.id = s[id].id \/ outcome = "written"
               THEN [s EXCEPT ![id] = newData]
               ELSE s

\* RxDbExceptionLogRepository.markAsSynced(id)
MarkAsSynced(s, id, outcome) == Update(s, id, [isSynced |-> TRUE], outcome)

\* StorageFacade.updateExceptionLog / syncExceptionLog
UpdateExceptionLog(db, id, updates, outcome) ==
    [db EXCEPT !.exception_logs = Update(@, id, updates, outcome)]

SyncExceptionLog(db, id, outcome) ==
    [db EXCEPT !.exception_logs = MarkAsSynced(@, id, outcome)]

\* The partials a caller passes for the log of an id: the synced flag, alone
\* or with one more field.
UpdateChoices(id) ==
    [isSynced : BOOLEAN]
        \cup [isSynced : BOOLEAN, message : {<<"edited">>}]
        \cup [isSynced : BOOLEAN, parkingDoorNumber : {"9"}]
        \cup [id : {id}, isSynced : BOOLEAN]

\* The ids a caller passes: those of the store and one the store lacks.
UpdateIds == DOMAIN logs \cup {AppLog(0, FALSE).id}

UpdateCall(id, updates, outcome) ==
    /\ logs' = UpdateExceptionLog(Database, id, updates, outcome).exception_logs
    /\ txs' = UpdateExceptionLog(Database, id, updates, outcome).txns
    /\ UNCHANGED <<online, now, reqs, ticks, submits, succeeded, failed, gone,
                   logs0>>
    /\ UNCHANGED <<reads, readErrors, rxDbService>>
    /\ UNCHANGED cronVars

SyncCall(id, outcome) ==
    /\ logs' = SyncExceptionLog(Database, id, outcome).exception_logs
    /\ txs' = SyncExceptionLog(Database, id, outcome).txns
    /\ UNCHANGED <<online, now, reqs, ticks, submits, succeeded, failed, gone,
                   logs0>>
    /\ UNCHANGED <<reads, readErrors, rxDbService>>
    /\ UNCHANGED cronVars

StoreNext ==
    \/ \E id \in UpdateIds : \E updates \in UpdateChoices(id) :
        \E outcome \in SaveOutcomes : UpdateCall(id, updates, outcome)
    \/ \E id \in UpdateIds : \E outcome \in SaveOutcomes : SyncCall(id, outcome)

StoreSpec == Init /\ [][StoreNext]_vars

\* ------------------------------------------------ the database service
\* A createDatabase() promise is "creating" while createRxDatabase is
\* awaited, "collections" while addCollections is awaited, then "resolved"
\* or "rejected".
Pending(s) ==
    {k \in DOMAIN s.promises : s.promises[k] \in {"creating", "collections"}}

\* init(): returns initPromise when there is one, returns when rxdb is set,
\* else calls createDatabase() and stores its promise. When createRxDatabase
\* throws at the call, the catch block of createDatabase runs before
\* createDatabase returns, and the assignment to initPromise after it.
InitCall(s, throws) ==
    IF s.initPromise # 0
      THEN [s EXCEPT !.inits = @ + 1,
                     !.lastInit = [returned |-> s.initPromise, created |-> FALSE]]
    ELSE IF s.rxdb # 0
      THEN [s EXCEPT !.inits = @ + 1,
                     !.lastInit = [returned |-> 0, created |-> FALSE]]
    ELSE LET k == Len(s.promises) + 1
         IN  [s EXCEPT !.inits = @ + 1,
                       !.promises = Append(@, IF throws THEN "rejected"
                                                        ELSE "creating"),
                       !.initPromise = k,
                       !.lastInit = [returned |-> k, created |-> TRUE]]

RxDbInit(throws) ==
    /\ rxDbService.inits < MaxInits
    /\ (rxDbService.initPromise = 0 /\ rxDbService.rxdb = 0)
            => Len(rxDbService.promises) < MaxCreates
    /\ rxDbService' = InitCall(rxDbService, throws)
    /\ UNCHANGED <<online, now, logs, reqs, ticks, submits, succeeded, failed,
                   gone, logs0, reads, readErrors, txs>>
    /\ UNCHANGED cronVars

\* createRxDatabase resolves: createDatabase calls db.addCollections.
CreateRxDatabaseResolves(k) ==
    /\ rxDbService.promises[k] = "creating"
    /\ rxDbService' = [rxDbService EXCEPT !.promises[k] = "collections"]
    /\ UNCHANGED <<online, now, logs, reqs, ticks, submits, succeeded, failed,
                   gone, logs0, reads, readErrors, txs>>
    /\ UNCHANGED cronVars

\* addCollections resolves: `this.rxdb = db`.
AddCollectionsResolves(k) ==
    /\ rxDbService.promises[k] = "collections"
    /\ rxDbService' = [rxDbService EXCEPT !.promises[k] = "resolved",
                                          !.rxdb = k]
    /\ UNCHANGED <<online, now, logs, reqs, ticks, submits, succeeded, failed,
                   gone, logs0, reads, readErrors, txs>>
    /\ UNCHANGED cronVars

\* Either await rejects: the catch block clears initPromise and rethrows.
CreateDatabaseFails(k) ==
    /\ k \in Pending(rxDbService)
    /\ rxDbService' = [rxDbService EXCEPT !.promises[k] = "rejected",
                                          !.initPromise = 0]
    /\ UNCHANGED <<online, now, logs, reqs, ticks, submits, succeeded, failed,
                   gone, logs0, reads, readErrors, txs>>
    /\ UNCHANGED cronVars

\* destroy(): nothing without a database; else the removal of the first
\* collection is awaited.
RxDbDestroy ==
    /\ rxDbService.destroyCalls < MaxDestroys
    /\ rxDbService' =
          [rxDbService EXCEPT
              !.destroyCalls = @ + 1,
              !.destroys = IF rxDbService.rxdb = 0 THEN @
                           ELSE @ \cup {[id |-> rxDbService.destroyCalls + 1,
                                         step |-> "txns"]}]
    /\ UNCHANGED <<online, now, logs, reqs, ticks, submits, succeeded, failed,
                   gone, logs0, reads, readErrors, txs>>
    /\ UNCHANGED cronVars

\* An awaited removal of a collection resolves: destroy reads this.rxdb
\* again for the next removal (a TypeError ends it when rxdb is unset).
DestroyStep(d) ==
    /\ d \in rxDbService.destroys
    /\ d.step \in {"txns", "exception_logs"}
    /\ rxDbService' =
          [rxDbService EXCEPT
              !.destroys =
                  IF rxDbService.rxdb = 0 THEN @ \ {d}
                  ELSE (@ \ {d}) \cup
                        {[d EXCEPT !.step = IF d.step = "txns"
                                              THEN "exception_logs"
                                              ELSE "database"]}]
    /\ UNCHANGED <<online, now, logs, reqs, ticks, submits, succeeded, failed,
                   gone, logs0, reads, readErrors, txs>>
    /\ UNCHANGED cronVars

\* `await this.rxdb.remove()` resolves: rxdb and initPromise are unset.
DestroyDone(d) ==
    /\ d \in rxDbService.destroys
    /\ d.step = "database"
    /\ rxDbService' = [rxDbService EXCEPT !.destroys = @ \ {d},
                                          !.rxdb = 0,
                                          !.initPromise = 0]
    /\ UNCHANGED <<online, now, logs, reqs, ticks, submits, succeeded, failed,
                   gone, logs0, reads, readErrors, txs>>
    /\ UNCHANGED cronVars

DatabaseNext ==
    \/ \E throws \in BOOLEAN : RxDbInit(throws)
    \/ \E k \in DOMAIN rxDbService.promises : CreateRxDatabaseResolves(k)
    \/ \E k \in DOMAIN rxDbService.promises : AddCollectionsResolves(k)
    \/ \E k \in DOMAIN rxDbService.promises : CreateDatabaseFails(k)
    \/ RxDbDestroy
    \/ \E d \in rxDbService.destroys : DestroyStep(d)
    \/ \E d \in rxDbService.destroys : DestroyDone(d)

DatabaseSpec == CronSpecInit /\ [][DatabaseNext]_vars

\* =============================================================== claims
\* Logs in the store that the catchError handler of checkSyncLog created.
OrchestratorLogs == {l \in FindUnsynced(logs) : l.id[1] = "sync-error"}

\* A request that has left the pipe in this step.
Finished(r) == r \in reqs /\ r \notin reqs'

\* C1: the store never holds two unsynced logs created by the orchestrator
\* with the same (errorType, code, serviceName).
C1_AtMostOnePerTriple ==
    \A a, b \in OrchestratorLogs :
        (a.errorType = b.errorType /\ a.code = b.code
            /\ a.serviceName = b.serviceName) => a = b

\* C2: a tick that starts while the device is offline calls the gateway for
\* no log and leaves the store as it is.
C2_OfflineTickIsNoOp ==
    [][(ticks' = ticks + 1 /\ ~online)
        => (submits' = submits /\ reqs' = reqs /\ logs' = logs)]_vars

C4_DeleteOnlyAfterSuccess ==
    /\ gone \subseteq succeeded
    /\ \A id \in DOMAIN logs0 \ DOMAIN logs : id \in succeeded

C4_Witness ==
    /\ gone # {}
    /\ \E id \in failed \ succeeded : id \in DOMAIN logs

\* C5: a log whose submission was rejected (and never accepted) is still in
\* the store, unchanged and unsynced; the next tick submits it again; and
\* the handler of one rejection inserts at most one log.
C5_RejectedLogKept ==
    /\ [](\A id \in failed \ succeeded :
            id \in DOMAIN logs /\ logs[id].payload.is_sync = FALSE)
    /\ [][\A id \in DOMAIN logs \cap DOMAIN logs' : logs'[id] = logs[id]]_vars
    /\ [][ticks' # ticks =>
            \A id \in failed \ succeeded :
                \E r \in reqs' : r.tick = ticks' /\ r.log.id = id]_vars
    /\ [][DOMAIN logs' \ DOMAIN logs # {} =>
            /\ Cardinality(DOMAIN logs' \ DOMAIN logs) = 1
            /\ Cardinality({r \in reqs : Finished(r)}) = 1]_vars

C5_Witness ==
    /\ \E id \in failed \ succeeded :
         \E r \in reqs : r.log.id = id /\ r.tick = 2 /\ r.phase = "sent"
    /\ \E l \in DOMAIN logs : l[1] = "sync-error"

\* C6: only the handler of a rejected submission inserts a log; while every
\* submission has succeeded the store holds no new log, and once the
\* outcomes are applied it holds the initial logs minus the submitted ones.
C6_AllSuccessInsertsNothing ==
    /\ [](failed = {} => DOMAIN logs \subseteq DOMAIN logs0)
    /\ []((failed = {} /\ reqs = {}) =>
            logs = [id \in DOMAIN logs0 \ succeeded |-> logs0[id]])
    /\ [][DOMAIN logs' \ DOMAIN logs # {} =>
            \E r \in reqs : Finished(r) /\ r.errorType # ""
                            /\ r.log.id \in failed]_vars

C6_Witness ==
    /\ ticks >= 1
    /\ succeeded # {}
    /\ failed = {}
    /\ reqs = {}
    /\ DOMAIN logs # {}
    /\ logs # logs0

\* C7: the action of a job registered with maxRuns = k >= 1 is started at
\* most k times.
C7_StartedAtMostMaxRuns ==
    \A g \in DOMAIN closures :
        closures[g].options.maxRuns >= 1
            => started[g] <= closures[g].options.maxRuns

\* C8: an undisturbed interval job (period p, maxRuns = k, autoStart, every
\* invocation settled with success before the next tick) has, at time
\* k*p + p/2 after its registration, started its action k times and is no
\* longer running.
C8_StoppedOnReachingMaxRuns ==
    \A g \in DOMAIN closures :
        LET c == closures[g]
            k == c.options.maxRuns
        IN  (/\ c.kind = "interval"
             /\ c.options.autoStart
             /\ ~c.options.runOnInit
             /\ k >= 1
             /\ ~disturbed
             /\ \A v \in inflight : v.gen # g
             /\ c.runCount = started[g]
             /\ clock = c.registeredAt + k * c.interval + (c.interval \div 2))
            => (/\ started[g] = k
                /\ c.name \in DOMAIN jobs
                /\ ~jobs[c.name].isRunning)

\* C9: a registered job with maxRuns set has runCount <= maxRuns.
C9_RunCountWithinMaxRuns ==
    \A n \in DOMAIN jobs :
        jobs[n].options.maxRuns >= 1
            => jobs[n].runCount <= jobs[n].options.maxRuns

\* C10: a registered job that is not running has no next run time.
C10_NotRunningHasNoNextRun ==
    \A n \in DOMAIN jobs : ~jobs[n].isRunning => jobs[n].nextRun = {}

\* The registration g has been replaced by a later one of the same name.
Replaced(g) == \E h \in DOMAIN closures : closures[h].prior = g

\* C11: a failing invocation is handed to onError when one was registered,
\* leaves the job's runCount and isRunning as they were, and leaves a timer
\* armed for a running job, for interval and daily jobs alike.
C11_FailureLeavesJobRunning ==
    /\ [](\A f \in failures : closures[f.gen].options.onError => f.reported)
    /\ [][\A f \in failures' \ failures :
            LET n == closures[f.gen].name
            IN  (n \in DOMAIN jobs /\ jobs[n].gen = f.gen) =>
                    /\ jobs'[n].runCount = jobs[n].runCount
                    /\ jobs'[n].isRunning = jobs[n].isRunning
                    /\ jobs[n].isRunning => \E t \in timers' : t.gen = f.gen]_vars

\* C12: from the return of stopJob(name) until startJob(name) or a new
\* registration of the name, the job is not running and no invocation of its
\* action starts.
C12_StoppedStaysStopped ==
    /\ [](\A n \in stopped : n \in DOMAIN jobs => ~jobs[n].isRunning)
    /\ [][\A n \in stopped \cap stopped' :
            n \in DOMAIN jobs => started'[jobs[n].gen] = started[jobs[n].gen]]_vars

\* C13: at most one invocation of a daily job's action is in flight.
C13_DailyOneInFlight ==
    \A v, w \in inflight : (v.daily /\ w.daily /\ v.gen = w.gen) => v = w

C15_ReAddReplaces ==
    /\ [](\A t \in timers : ~Replaced(t.gen))
    /\ [](\A n \in DOMAIN jobs :
            Cardinality({t \in timers : closures[t.gen].name = n}) <= 1)
    /\ [][\A g \in DOMAIN closures :
            Replaced(g) => started'[g] = started[g]]_vars

\* C16: a rejected read of the store in a sync tick reaches the scheduler's
\* failure path: the invocation is recorded as failed and is not counted in
\* runCount.
C16_ReadFailureReachesScheduler ==
    /\ \A k \in readErrors : \E f \in failures : f.n = k
    /\ AppJob \in DOMAIN jobs =>
            jobs[AppJob].runCount + Cardinality(readErrors)
                <= started[jobs[AppJob].gen]

\* C17: whatever the gateway answers, every invocation of the sync job is
\* counted in runCount, none is recorded as failed, and the job keeps
\* running; a gateway failure changes nothing in the scheduler.
C17_GatewayFailureNeverFailsJob ==
    /\ [](AppJob \in DOMAIN jobs =>
            /\ jobs[AppJob].isRunning
            /\ jobs[AppJob].runCount = ticks
            /\ \E t \in timers : t.id \in jobs[AppJob].intervalId
            /\ failures = {})
    /\ [][failed' # failed =>
            (jobs' = jobs /\ timers' = timers /\ failures' = failures)]_vars

C17_Witness ==
    /\ failed # {}
    /\ AppJob \in DOMAIN jobs
    /\ jobs[AppJob].runCount >= 2
    /\ reqs = {}
    /\ \E id \in DOMAIN logs : id[1] = "sync-error"

\* The eight rows of the taxonomy table.
TaxonomyRows ==
    {<<"NetworkOfflineError", "SYNC_NET_001">>, <<"TimeoutError", "SYNC_TMO_001">>,
     <<"BadRequestError", "SYNC_REQ_400">>, <<"UnauthorizedError", "SYNC_AUT_401">>,
     <<"ForbiddenError", "SYNC_FOR_403">>, <<"NotFoundError", "SYNC_NTF_404">>,
     <<"ServerError", "SYNC_SRV_500">>, <<"SyncError", "SYNC_ERR_001">>}

\* C18: the (errorType, code) of every failed submission, and of every log
\* the orchestrator recorded, is a row of the taxonomy table.
C18_RecordedPairInTaxonomy ==
    /\ \A r \in reqs :
          r.errorType # "" =>
              <<r.errorType, GetErrorCode(r.errorType)>> \in TaxonomyRows
    /\ \A l \in OrchestratorLogs : <<l.errorType, l.code>> \in TaxonomyRows

C18_Witness ==
    /\ online
    /\ \E l \in OrchestratorLogs : l.errorType = "SyncError"
    /\ \E l \in OrchestratorLogs : l.errorType = "NotFoundError"

\* C19: a tick submits each log that is unsynced in the store when it reads
\* it, once, and nothing else; no submission is made outside a tick.
C19_EachUnsyncedSubmittedOnce ==
    /\ [][ticks' # ticks =>
            LET unsynced == {id \in DOMAIN logs : logs[id].payload.is_sync = FALSE}
                new == {r \in reqs' : r.tick = ticks'}
            IN  /\ {r.log.id : r \in new} = unsynced
                /\ Cardinality(new) = Cardinality(unsynced)
                /\ submits' - submits = Cardinality(unsynced)
                /\ \A r \in new :
                      r.phase = "sent" /\ r.log = MapToModel(logs[r.log.id])
                /\ reqs' \ new = reqs]_vars
    /\ [][ticks' = ticks =>
            /\ submits' = submits
            /\ \A r \in reqs' : r.phase = "sent" => r \in reqs]_vars

C19_Witness ==
    /\ ticks = 1
    /\ submits = 2
    /\ \E r \in reqs : r.phase = "sent"
    /\ \E r \in reqs : r.phase = "inserting"

\* C20: a submission answered with a status outside 200..299, or not
\* answered at all, is rejected and never takes the success path; a log is
\* deleted only by a submission that was answered with a 2xx status.
C20_Non2xxIsRejected ==
    /\ [](\A r \in reqs :
            /\ r.phase = "deleting" => (r.status >= 200 /\ r.status <= 299)
            /\ (r.phase # "sent" /\ ~(r.status >= 200 /\ r.status <= 299)) =>
                  (r.phase \in {"checking", "inserting"}
                     /\ r.errorType # "" /\ r.log.id \in failed))
    /\ [][\A id \in DOMAIN logs \ DOMAIN logs' :
            \E r \in reqs : /\ Finished(r)
                             /\ r.log.id = id
                             /\ r.status >= 200 /\ r.status <= 299]_vars

C20_Witness ==
    /\ \E r \in reqs : r.status = 304 /\ r.phase \in {"checking", "inserting"}
    /\ \E id \in failed \ succeeded : id \in DOMAIN logs
    /\ gone # {}

\* C21: startJob on a job that is already running and stopJob on a job
\* that is already stopped change nothing: the job's isRunning, nextRun,
\* runCount, lastRun and armed timer, every other job and every timer are
\* the same after the call as before it; no second timer is armed.
C21_RepeatedStartStopIsNoOp ==
    [][\A name \in DOMAIN jobs :
         /\ (StartJob(name) /\ jobs[name].isRunning)
                => (jobs' = jobs /\ timers' = timers)
         /\ (StopJob(name) /\ ~jobs[name].isRunning)
                => (jobs' = jobs /\ timers' = timers)]_vars

\* startJob has just returned for a running job that still has its one
\* timer, after stopJob was applied to another job that never ran.
C21_Witness ==
    \E name \in DOMAIN jobs : \E other \in DOMAIN jobs \ {name} :
        /\ lastCall = [op |-> "startJob", name |-> name, known |-> TRUE,
                       running |-> TRUE]
        /\ jobs[name].isRunning
        /\ Cardinality({t \in timers : t.gen = jobs[name].gen}) = 1
        /\ calls = 2
        /\ other \in stopped
        /\ ~closures[jobs[other].gen].options.autoStart
        /\ ~jobs[other].isRunning

\* C22: startJob, stopJob and removeJob given a name the table does not hold
\* return to the caller and leave every job, every timer, every closure and
\* every invocation in flight as they were; for such a name getNextRunTime
\* is null and getJob is undefined.
C22_UnknownNameIsNoOp ==
    /\ [][\A name \in ServiceNames \ DOMAIN jobs :
            (StartJob(name) \/ StopJob(name) \/ RemoveJob(name))
                => /\ jobs' = jobs
                   /\ timers' = timers
                   /\ closures' = closures
                   /\ inflight' = inflight
                   /\ lastCall'.name = name
                   /\ ~lastCall'.known]_vars
    /\ [](\A name \in ServiceNames \ DOMAIN jobs :
            /\ GetJob(jobs, name) = {}
            /\ GetNextRunTime(jobs, name) = {}
            /\ calls < MaxServiceCalls
                => (ENABLED StartJob(name) /\ ENABLED StopJob(name)
                        /\ ENABLED RemoveJob(name)))

\* removeJob has just returned for a name the table does not hold, while
\* the job of the other name is running on its timer.
C22_Witness ==
    \E name \in ServiceNames \ DOMAIN jobs : \E other \in DOMAIN jobs :
        /\ lastCall = [op |-> "removeJob", name |-> name, known |-> FALSE,
                       running |-> FALSE]
        /\ jobs[other].isRunning
        /\ \E t \in timers : t.id \in jobs[other].intervalId

\* C23: removeJob(name) of a registered job leaves getJob(name) undefined
\* and cancels the timer the job holds; while the name stays out of the
\* table the job's action is not started again, and an invocation that was
\* in flight at the removal completes without putting the job back or arming
\* a timer.
C23_RemovedJobIsGone ==
    /\ [][\A name \in DOMAIN jobs :
            RemoveJob(name)
                => /\ GetJob(jobs', name) = {}
                   /\ \A t \in timers :
                        t.id \in jobs[name].intervalId => t \notin timers']_vars
    /\ [][\A g \in DOMAIN closures :
            closures[g].name \notin DOMAIN jobs
                => /\ started'[g] = started[g]
                   /\ \A v \in inflight :
                        (v.gen = g /\ \E ok \in BOOLEAN :
                            IntervalSettle(v, ok) \/ DailySettle(v, ok))
                            => (jobs' = jobs /\ timers' = timers)]_vars

\* C24: right after stopAll(), and after ngOnDestroy() which runs it, every
\* job is still registered, none has isRunning = true and
\* getRunningJobsCount() is 0; right after removeAll() the table is empty and
\* getAllJobs() returns no job.
C24_StopAllRemoveAll ==
    [][/\ (StopAll \/ NgOnDestroy)
            => /\ DOMAIN jobs' = DOMAIN jobs
               /\ \A n \in DOMAIN jobs' : ~jobs'[n].isRunning
               /\ GetRunningJobsCount(jobs') = 0
       /\ RemoveAll
            => /\ DOMAIN jobs' = {}
               /\ GetAllJobs(jobs') = {}]_vars

\* stopAll() has just returned with an interval job and a daily job in the
\* table, both registered with autoStart, both stopped now, no timer left.
C24_Witness ==
    /\ lastCall.op = "stopAll"
    /\ DOMAIN jobs = ServiceNames
    /\ {jobs[n].kind : n \in DOMAIN jobs} = {"interval", "daily"}
    /\ \A n \in DOMAIN jobs :
            /\ closures[jobs[n].gen].options.autoStart
            /\ ~jobs[n].isRunning
    /\ calls = 1
    /\ timers = {}

\* C25: addSecondsJob(name, s), addMinutesJob(name, m) and addHoursJob(name,
\* h) do exactly what addIntervalJob(name, s*1000), addIntervalJob(name,
\* m*60000) and addIntervalJob(name, h*3600000) do with the same options:
\* the same job, closure, timer and first invocation; the job then ticks
\* with that period.
C25_HelpersAreIntervalJobs ==
    /\ [][\A name \in JobNames : \A k \in 1..MaxUnits :
          \A options \in OptionChoices :
            /\ AddSecondsJob(name, k, options)
                    => AddIntervalJob(name, k * 1000, options)
            /\ AddMinutesJob(name, k, options)
                    => AddIntervalJob(name, k * 60000, options)
            /\ AddHoursJob(name, k, options)
                    => AddIntervalJob(name, k * 3600000, options)]_vars
    /\ [](\A t \in timers :
            /\ t.period = closures[t.gen].interval
            /\ (t.due - closures[t.gen].registeredAt) % t.period = 0)

\* A job registered by addMinutesJob(name, 2) has completed the run of its
\* first periodic tick, 120000 ms after registration.
C25_Witness ==
    \E name \in DOMAIN jobs :
        /\ jobs[name].interval = 120000
        /\ ~jobs[name].options.runOnInit
        /\ jobs[name].runCount = 1
        /\ jobs[name].lastRun = {120000}
        /\ clock = 120000

\* C26: a call of getJob, getAllJobs, getRunningJobsCount or getNextRunTime
\* leaves the job table, every field of every job, every timer, closure and
\* invocation in flight as they were, and getRunningJobsCount returns the
\* number of registered jobs whose isRunning is true.
C26_GettersReadOnly ==
    [][observed' # observed
        => /\ jobs' = jobs
           /\ timers' = timers
           /\ closures' = closures
           /\ inflight' = inflight
           /\ clock' = clock
           /\ observed'.call = "getRunningJobsCount"
                => observed'.result =
                     Cardinality({n \in DOMAIN jobs : jobs[n].isRunning})
           /\ observed'.call = "getJob"
                => \A info \in observed'.result :
                     /\ info.isRunning = jobs[info.name].isRunning
                     /\ info.runCount = jobs[info.name].runCount
                     /\ info.nextRun = jobs[info.name].nextRun]_vars

\* getRunningJobsCount has returned 1 with two jobs registered, one of them
\* running on its timer and the other not running.
C26_Witness ==
    /\ observed.call = "getRunningJobsCount"
    /\ observed.result = 1
    /\ DOMAIN jobs = ServiceNames
    /\ \E n \in DOMAIN jobs :
            jobs[n].isRunning /\ \E t \in timers : t.id \in jobs[n].intervalId
    /\ \E n \in DOMAIN jobs : ~jobs[n].isRunning

\* C27: no synchronisation tick and none of its outcomes (a submission
\* accepted, rejected, its log deleted, an error log inserted) inserts,
\* updates or deletes an access record: the txns collection is at every
\* moment the one the store started with.
C27_AccessRecordsUntouched == txs = InitialTxs

\* A tick has ended with one log accepted and deleted and, for the other,
\* rejected one, an error log inserted, the access record still stored.
C27_Witness ==
    /\ gone # {}
    /\ \E id \in DOMAIN logs : id \notin DOMAIN logs0
    /\ reqs = {}
    /\ DOMAIN txs # {}

\* The kind the stated order gives: the first rule that matches.
C28_Kind(msg, onLine) ==
    CASE ~onLine \/ Includes(msg, "network") \/ Includes(msg, "failed to fetch")
            -> "NetworkOfflineError"
      [] OTHER ->
    CASE Includes(msg, "timeout") -> "TimeoutError"
      [] OTHER ->
    CASE Includes(msg, "400") -> "BadRequestError"
      [] OTHER ->
    CASE Includes(msg, "401") -> "UnauthorizedError"
      [] OTHER ->
    CASE Includes(msg, "403") -> "ForbiddenError"
      [] OTHER ->
    CASE Includes(msg, "404") -> "NotFoundError"
      [] OTHER ->
    CASE Includes(msg, "500") \/ Includes(msg, "internal server") -> "ServerError"
      [] OTHER -> "SyncError"

\* C28: the kind recorded for a failed submission is the first match of:
\* off line, 'network' or 'failed to fetch' -> NetworkOfflineError; 'timeout'
\* -> TimeoutError; 400 -> BadRequestError; 401 -> UnauthorizedError; 403 ->
\* ForbiddenError; 404 -> NotFoundError; 500 or 'internal server' ->
\* ServerError; else SyncError. Off line it is NetworkOfflineError whatever
\* the message, and equal message and connectivity give equal kinds.
C28_FirstMatchClassification ==
    [][\A p \in reqs : \A r \in reqs' \ reqs :
         (p.phase = "sent" /\ r.log = p.log /\ r.tick = p.tick
            /\ r.errorType # "")
            => /\ r.errorType = C28_Kind(r.msg, online)
               /\ ~online => r.errorType = "NetworkOfflineError"]_vars

\* One submission answered 500 while off line is recorded as
\* NetworkOfflineError, another answered 504 while on line as TimeoutError.
C28_Witness ==
    /\ \E r \in reqs : r.msg = Msg500 /\ r.errorType = "NetworkOfflineError"
    /\ \E r \in reqs : r.msg = Msg504 /\ r.errorType = "TimeoutError"

\* C29: a job registered with autoStart (the default) is running right after
\* the registration, one registered with autoStart = false is not, and its
\* action is not invoked by a timer before a lifecycle call is made; with
\* runOnInit = true the action is invoked once in the registration itself,
\* whether or not autoStart is set, and without runOnInit it is not.
C29_AutoStartRunOnInit ==
    /\ [][Len(closures') = Len(closures) + 1
            => LET g == Len(closures')
                   c == closures'[g]
               IN  /\ jobs'[c.name].isRunning = c.options.autoStart
                   /\ started'[g] = IF c.options.runOnInit THEN 1 ELSE 0
                   /\ c.options.autoStart
                        => \E t \in timers' : t.id \in jobs'[c.name].intervalId
                   /\ ~c.options.autoStart
                        => \A t \in timers' : t.gen # g]_vars
    /\ [][\A g \in DOMAIN closures :
            (~closures[g].options.autoStart /\ calls = 0)
                => started'[g] = started[g]]_vars

\* C30: the runCount of every registered job is the number of invocations
\* of that job's own action that completed successfully since the job was
\* registered, and lastRun is set once there is such a completion.
C30_RunCountCountsOwnCompletions ==
    \A n \in DOMAIN jobs :
        /\ jobs[n].runCount = closures[jobs[n].gen].runCount
        /\ jobs[n].runCount > 0 => jobs[n].lastRun # {}

\* C31: whenever a daily job is running and its action is not executing, its
\* nextRun is the next occurrence of its time of day and a timer that starts
\* the action is armed for that instant, whichever way the job was started.
C31_DailyNextRunIsNextOccurrence ==
    \A n \in DOMAIN jobs :
        (/\ jobs[n].kind = "daily"
         /\ jobs[n].isRunning
         /\ \A v \in inflight : v.gen # jobs[n].gen)
            => \E x \in jobs[n].nextRun :
                /\ x % DayLen = closures[jobs[n].gen].at
                /\ clock <= x
                /\ x <= clock + DayLen
                /\ \E t \in timers : t.fn = "fire" /\ t.due = x

\* C32: every diagnostic the orchestrator inserts on a failed submission is
\* unsynced, carries the orchestrator's own serviceName and the door number
\* of the log whose submission failed ("N/A" when that log has none); its
\* id, message, errorType and code come from the failure, none of them from
\* the failed log.
C32_DiagnosticFields ==
    [][\A r \in reqs :
        (r.phase = "inserting" /\ Finished(r))
            => \A id \in DOMAIN logs' \ DOMAIN logs :
                LET d == MapToModel(logs'[id])
                IN  /\ d.isSynced = FALSE
                    /\ d.serviceName = "AppComponent"
                    /\ d.parkingDoorNumber =
                          IF r.log.parkingDoorNumber = ""
                            THEN "N/A" ELSE r.log.parkingDoorNumber
                    /\ d.id # r.log.id /\ d.id[1] = "sync-error"
                    /\ d.errorType = r.errorType
                    /\ d.code = GetErrorCode(r.errorType)
                    /\ d.message = GetErrorMessage(r.msg, r.errorType)
                    /\ r.log.serviceName = "CameraService"
                        => /\ d.errorType # r.log.errorType
                           /\ d.code # r.log.code
                           /\ d.message # r.log.message]_vars

\* The store holds one diagnostic that carries the door number of the failed
\* log and one, for the log without a door number, that carries "N/A".
C32_Witness ==
    /\ \E l \in OrchestratorLogs : l.parkingDoorNumber = "7"
    /\ \E l \in OrchestratorLogs : l.parkingDoorNumber = "N/A"

\* C33: with the device on line, the job ticking for ever, no log written
\* by the application and every submission after those of the first tick
\* succeeding, the store eventually holds no unsynced log, the
\* orchestrator's own diagnostics included, and stays without one.
C33_StoreDrains == <>[](online => FindUnsynced(logs) = {})

\* A diagnostic of the orchestrator has been submitted and deleted, and the
\* store holds no unsynced log.
C33_Witness ==
    /\ FindUnsynced(logs) = {}
    /\ reqs = {}
    /\ \E id \in gone : id[1] = "sync-error"

\* C34: an invocation that settles, or a timer callback that runs, for a
\* registration whose name is held by a newer job leaves that job's record
\* and the armed timers as they are.
C34_StaleCallbackLeavesNewJob ==
    /\ [][\A v \in inflight :
            LET n == closures[v.gen].name
            IN  (v \notin inflight' /\ n \in DOMAIN jobs /\ jobs[n].gen # v.gen)
                    => jobs' = jobs /\ timers' = timers]_vars
    /\ [][\A t \in timers :
            LET n == closures[t.gen].name
            IN  (IntervalTick(t) /\ n \in DOMAIN jobs /\ jobs[n].gen # t.gen)
                    => jobs' = jobs]_vars

\* C35: each registered job has at most one armed timer and its record holds
\* the handle of that timer: a running job whose action is not executing
\* has exactly one armed timer, a job that is not running has none.
C35_OneTimerPerJob ==
    \A n \in DOMAIN jobs :
        LET own == {t \in timers : t.gen = jobs[n].gen}
        IN  /\ Cardinality(own) <= 1
            /\ \A t \in own : t.id \in jobs[n].intervalId
            /\ (jobs[n].isRunning /\ \A v \in inflight : v.gen # jobs[n].gen)
                    => Cardinality(own) = 1
            /\ ~jobs[n].isRunning => own = {}

\* C36: the id generated for a diagnostic is the id of no log in the store,
\* so the insert of the catchError handler never meets a duplicate id.
C36_GeneratedIdIsFresh ==
    [][\A r \in reqs :
        (r.phase = "inserting" /\ Finished(r))
            => ~InsertLogConflict(logs,
                    SyncErrorLog(r.log, r.msg, r.errorType, now))]_vars

\* C37: an update of a stored log with a partial set of fields, and
\* markAsSynced, set the fields given and leave every other field of the
\* log with its previous value.
C37_UpdateChangesGivenFieldsOnly ==
    /\ [][\A id \in DOMAIN logs : \A updates \in UpdateChoices(id) :
            (\E outcome \in SaveOutcomes : UpdateCall(id, updates, outcome))
                => \A f \in ModelFields :
                    MapToModel(logs'[id])[f] =
                        IF f \in DOMAIN updates THEN updates[f]
                        ELSE MapToModel(logs[id])[f]]_vars
    /\ [][\A id \in DOMAIN logs :
            (\E outcome \in SaveOutcomes : SyncCall(id, outcome))
                => \A f \in ModelFields :
                    MapToModel(logs'[id])[f] =
                        IF f = "isSynced" THEN TRUE
                        ELSE MapToModel(logs[id])[f]]_vars

\* C38: the action of a job registered with maxRuns = 0 is never started.
\* (options.maxRuns = 0 is what the closure holds after a registration with
\* maxRuns: 0; `maxRuns && ...` reads the same from an absent maxRuns.)
C38_MaxRunsZeroNeverRuns ==
    \A g \in DOMAIN closures :
        (closures[g].kind = "interval" /\ closures[g].options.maxRuns = 0)
            => started[g] = 0

\* C39: init() calls, however many and however interleaved, never have two
\* creations of the database under way, nor one under way while a database
\* is set; a call that arrives during a creation creates nothing and gets
\* the promise of that creation; a call that finds neither a database nor a
\* creation under way (after a failed creation, after destroy()) starts a
\* creation.
C39_DatabaseCreatedOnce ==
    /\ [](Cardinality(Pending(rxDbService)) <= 1)
    /\ [](rxDbService.rxdb # 0 => Pending(rxDbService) = {})
    /\ [][rxDbService'.inits = rxDbService.inits + 1
            => /\ Pending(rxDbService) # {}
                    => /\ ~rxDbService'.lastInit.created
                       /\ rxDbService'.lastInit.returned \in Pending(rxDbService)
               /\ (Pending(rxDbService) = {} /\ rxDbService.rxdb = 0)
                    => rxDbService'.lastInit.created]_vars

====
